---- MODULE Spec2Model ----
(***************************************************************************)
(* A model of webdownload (wd.py): the per-extension search loop with      *)
(* engine fallback, the retrying HTTP fetch of the search engines, and the *)
(* content-verified, retried, concurrent download of the candidate URLs.   *)
(*                                                                         *)
(* Strings (URLs, file names, extensions, MIME types) are sequences of     *)
(* one-character strings, so that lower(), endswith(), startswith(),       *)
(* split('/'), Path(...).stem / .suffix / .with_suffix and                  *)
(* urlparse(...).path are computed character by character as Python does.  *)
(***************************************************************************)
EXTENDS Integers, Sequences, FiniteSets, TLC

(***************************************************************************)
(* Bounds of the model.                                                    *)
(***************************************************************************)
\* args.max ranges over 0..MaxMax
MaxMax == 2
\* a result page of a search engine carries at most MaxLinks result links
MaxLinks == 2
\* args.workers ranges over 1..MaxWorkers
MaxWorkers == 2

(***************************************************************************)
(* Character-level string functions.                                       *)
(***************************************************************************)
UpperChars == <<"A","B","C","D","E","F","G","H","I","J","K","L","M",
                "N","O","P","Q","R","S","T","U","V","W","X","Y","Z">>
LowerChars == <<"a","b","c","d","e","f","g","h","i","j","k","l","m",
                "n","o","p","q","r","s","t","u","v","w","x","y","z">>
DigitChars == <<"0","1","2","3","4","5","6","7","8","9">>

Range(s) == { s[i] : i \in DOMAIN s }

\* F(x) with x worked out once, as Python works out a local before using it
Once(x, F(_)) == CHOOSE r \in { F(v) : v \in {x} } : TRUE

AlnumChars == Range(UpperChars) \cup Range(LowerChars) \cup Range(DigitChars)

\* str.isalnum() of one character
IsAlnum(c) == c \in AlnumChars

LowerOf == [c \in Range(UpperChars) |->
              LowerChars[CHOOSE i \in DOMAIN UpperChars : UpperChars[i] = c]]

\* str.lower() of one character
LowerChar(c) == IF c \in DOMAIN LowerOf THEN LowerOf[c] ELSE c

\* str.lower()
Lower(s) == [i \in DOMAIN s |-> LowerChar(s[i])]

\* s.endswith(e)
EndsWith(s, e) ==
  /\ Len(s) >= Len(e)
  /\ SubSeq(s, Len(s) - Len(e) + 1, Len(s)) = e

\* s.startswith(p)
StartsWith(s, p) ==
  /\ Len(s) >= Len(p)
  /\ SubSeq(s, 1, Len(p)) = p

\* s.find(c) for c in cs, 1-based; Len(s)+1 when none of cs occurs
FirstIdx(s, cs) ==
  IF \E i \in DOMAIN s : s[i] \in cs
  THEN CHOOSE i \in DOMAIN s : s[i] \in cs /\ \A j \in 1..(i-1) : s[j] \notin cs
  ELSE Len(s) + 1

\* s.rfind(c), 1-based; 0 when c does not occur
LastIdx(s, c) ==
  IF \E i \in DOMAIN s : s[i] = c
  THEN CHOOSE i \in DOMAIN s : s[i] = c /\ \A j \in (i+1)..Len(s) : s[j] # c
  ELSE 0

\* s.split(sep)[0]
SplitFirst(s, sep) == SubSeq(s, 1, FirstIdx(s, {sep}) - 1)

\* s.rstrip(c)
RECURSIVE RStrip(_, _)
RStrip(s, cs) ==
  IF s # <<>> /\ s[Len(s)] \in cs THEN RStrip(SubSeq(s, 1, Len(s) - 1), cs) ELSE s

\* s.lstrip(c)
RECURSIVE LStrip(_, _)
LStrip(s, cs) ==
  IF s # <<>> /\ s[1] \in cs THEN LStrip(Tail(s), cs) ELSE s

\* "".join(c for c in s if keep(c))
RECURSIVE FilterChars(_, _)
FilterChars(s, kept) ==
  IF s = <<>> THEN <<>>
  ELSE IF IsAlnum(s[1]) \/ s[1] \in kept
       THEN <<s[1]>> \o FilterChars(Tail(s), kept)
       ELSE FilterChars(Tail(s), kept)

(***************************************************************************)
(* pathlib and urllib.parse, as wd.py uses them.                           *)
(***************************************************************************)
\* PurePath(s).name: the last component of s
PathName(s) ==
  LET t == RStrip(s, {"/"})
  IN  SubSeq(t, LastIdx(t, "/") + 1, Len(t))

\* PurePath.suffix of a file name: from the last dot, unless that dot is the
\* first or the last character of the name
NameSuffix(name) ==
  LET i == LastIdx(name, ".")
  IN  IF 1 < i /\ i < Len(name) THEN SubSeq(name, i, Len(name)) ELSE <<>>

\* PurePath.stem of a file name
NameStem(name) == SubSeq(name, 1, Len(name) - Len(NameSuffix(name)))

\* PurePath.with_suffix, on the file name inside the output directory
WithSuffix(name, suffix) == NameStem(name) \o suffix

\* urlparse(url).path: what follows scheme and network location, up to the
\* query string or the fragment
UrlPath(url) ==
  LET Scheme(c) ==
        IF 1 < c /\ c <= Len(url) /\ \A j \in 1..(c-1) : IsAlnum(url[j])
        THEN SubSeq(url, c + 1, Len(url)) ELSE url
      AfterLoc(r2) == SubSeq(r2, FirstIdx(r2, {"/","?","#"}), Len(r2))
      NetLoc(rest) ==
        IF StartsWith(rest, <<"/","/">>)
        THEN Once(SubSeq(rest, 3, Len(rest)), AfterLoc)
        ELSE rest
      Path(loc) == SubSeq(loc, 1, FirstIdx(loc, {"?","#"}) - 1)
  IN  Once(Once(Once(FirstIdx(url, {":"}), Scheme), NetLoc), Path)

(***************************************************************************)
(* The tables of wd.py.                                                    *)
(***************************************************************************)
\* ALL_EXTENSIONS, a dict: its entries in insertion order
ALL_EXTENSIONS == <<
  [ext  |-> <<".","p","d","f">>,
   mime |-> <<"a","p","p","l","i","c","a","t","i","o","n","/","p","d","f">>],
  [ext  |-> <<".","d","o","c">>,
   mime |-> <<"a","p","p","l","i","c","a","t","i","o","n","/","m","s","w",
             "o","r","d">>],
  [ext  |-> <<".","d","o","c","x">>,
   mime |-> <<"a","p","p","l","i","c","a","t","i","o","n","/","v","n","d",
             ".","o","p","e","n","x","m","l","f","o","r","m","a","t","s",
             "-","o","f","f","i","c","e","d","o","c","u","m","e","n","t",
             ".","w","o","r","d","p","r","o","c","e","s","s","i","n","g",
             "m","l",".","d","o","c","u","m","e","n","t">>],
  [ext  |-> <<".","m","d">>,
   mime |-> <<"t","e","x","t","/","m","a","r","k","d","o","w","n">>],
  [ext  |-> <<".","m","a","r","k","d","o","w","n">>,
   mime |-> <<"t","e","x","t","/","m","a","r","k","d","o","w","n">>],
  [ext  |-> <<".","h","t","m","l">>,
   mime |-> <<"t","e","x","t","/","h","t","m","l">>],
  [ext  |-> <<".","h","t","m">>,
   mime |-> <<"t","e","x","t","/","h","t","m","l">>],
  [ext  |-> <<".","t","x","t">>,
   mime |-> <<"t","e","x","t","/","p","l","a","i","n">>] >>

\* key in d, for a dict d kept as the sequence of its entries
HasKey(d, key) == \E k \in DOMAIN d : d[k].ext = key

\* d[key]
Lookup(d, key) == d[CHOOSE k \in DOMAIN d : d[k].ext = key].mime

\* d[key] = value: a new key is appended, a present key keeps its place
DictPut(d, key, value) ==
  IF HasKey(d, key)
  THEN [k \in DOMAIN d |-> IF d[k].ext = key THEN [ext |-> key, mime |-> value] ELSE d[k]]
  ELSE Append(d, [ext |-> key, mime |-> value])

\* SEARCH_PAUSE, seconds
SEARCH_PAUSE == 2

\* ENGINES, a dict: its keys in insertion order
ENGINES == <<"duckduckgo", "bing", "google">>

\* the suffix download_file gives its staging file
PartSuffix == <<".","p","a","r","t">>

\* what python-magic reports for a file of zero bytes
EmptyMime == <<"i","n","o","d","e","/","x","-","e","m","p","t","y">>

(***************************************************************************)
(* The inputs the model draws from.                                        *)
(***************************************************************************)
\* the URLs a result page may link to: two documents of the same name on
\* two hosts (one with its extension in capitals), one URL that has its
\* extension in the query string only, one text document
U_a_h   == <<"h","t","t","p",":","/","/","h","/","a",".","p","d","f">>
U_A_g   == <<"h","t","t","p",":","/","/","g","/","a",".","P","D","F">>
U_query == <<"h","t","t","p",":","/","/","h","/","d","?","f","=","a",".","p","d","f">>
U_txt   == <<"h","t","t","p",":","/","/","h","/","b",".","t","x","t">>
UrlUniverse == {U_a_h, U_A_g, U_query, U_txt}

\* the content types python-magic may find in a fetched, non-empty body
M_pdf   == <<"a","p","p","l","i","c","a","t","i","o","n","/","p","d","f">>
M_zip   == <<"a","p","p","l","i","c","a","t","i","o","n","/","z","i","p">>
M_plain == <<"t","e","x","t","/","p","l","a","i","n">>
BodyMimes == {M_pdf, M_zip, M_plain}

\* the values of the --only option: absent (empty), or its comma-separated tokens
OnlyChoices == { <<>>,
                 << <<"p","d","f">> >>,
                 << <<"t","x","t">>, <<" ",".","P","D","F">> >>,
                 << <<"p","d","f">>, <<"z","i","p">> >> }

\* the sequences over S of length at most n
SeqUpTo(S, n) == UNION { [1..k -> S] : k \in 0..n }

(***************************************************************************)
(* The pure functions of wd.py.                                            *)
(***************************************************************************)
\* sanitize_filename(name)
sanitize_filename(name) == RStrip(FilterChars(name, {" ", ".", "_", "-"}), {" "})

\* parse_only over the tokens of arg.split(','): the allowed dict, or the
\* ValueError raised at the first unsupported token
RECURSIVE parse_only_from(_, _)
parse_only_from(toks, exts) ==
  IF toks = <<>> THEN [raised |-> FALSE, exts |-> exts]
  ELSE LET tok == LStrip(Lower(RStrip(LStrip(toks[1], {" "}), {" "})), {"."})
           key == <<".">> \o tok
       IN  IF ~HasKey(ALL_EXTENSIONS, key)
           THEN [raised |-> TRUE, exts |-> <<>>]
           ELSE parse_only_from(Tail(toks),
                                DictPut(exts, key, Lookup(ALL_EXTENSIONS, key)))

\* parse_only passing over the tokens it does not know
parse_only_lenient(toks) ==
  parse_only_from(
    SelectSeq(toks, LAMBDA tok :
      HasKey(ALL_EXTENSIONS,
             <<".">> \o LStrip(Lower(RStrip(LStrip(tok, {" "}), {" "})), {"."}))),
    <<>>)

\* parse_only(arg), arg given as its tokens
parse_only(toks) == parse_only_from(toks, <<>>)

\* OrderedEngines without the primary engine put first
OrderedAsRegistered(primary) == ENGINES

\* the fallback order of main: the primary engine, then the others as registered
OrderedEngines(primary) ==
  <<primary>> \o SelectSeq(ENGINES, LAMBDA e : e # primary)

\* engine.search(query, max_results) of the three engines, given what
\* _get_with_retry returned: [] without a response, else the result links
\* of the page, cut after max_results of them
EngineSearch(resp, max_results) ==
  IF ~resp.ok THEN <<>>
  ELSE SubSeq(resp.links, 1,
              IF Len(resp.links) < max_results THEN Len(resp.links) ELSE max_results)

\* ReachedMax with > for >=
ReachedMaxLate(docs, max) == Len(docs) > max

\* the test of main that ends the search: doc_urls has reached args.max
ReachedMax(docs, max) == Len(docs) >= max

\* Admissible without the test for a URL already in the list
AdmissibleAgain(u, ext, docs) == EndsWith(Lower(u), ext)

\* the test main puts a result URL to for the extension ext
Admissible(u, ext, docs) == EndsWith(Lower(u), ext) /\ u \notin Range(docs)

\* AdmitResults putting each admitted URL in front of the list
RECURSIVE AdmitResultsInFront(_, _, _, _)
AdmitResultsInFront(results, ext, docs, max) ==
  IF results = <<>> THEN docs
  ELSE IF EndsWith(Lower(results[1]), ext) /\ results[1] \notin Range(docs)
       THEN LET more == <<results[1]>> \o docs
            IN  IF Len(more) >= max THEN more
                ELSE AdmitResultsInFront(Tail(results), ext, more, max)
       ELSE AdmitResultsInFront(Tail(results), ext, docs, max)

\* the loop of main over the results of one engine: the new doc_urls
RECURSIVE AdmitResults(_, _, _, _)
AdmitResults(results, ext, docs, max) ==
  IF results = <<>> THEN docs
  ELSE IF Admissible(results[1], ext, docs)
       THEN LET more == Append(docs, results[1])
            IN  IF ReachedMax(more, max) THEN more
                ELSE AdmitResults(Tail(results), ext, more, max)
       ELSE AdmitResults(Tail(results), ext, docs, max)

\* download_with_retry: the file name derived from the URL, uuid standing
\* for a fresh uuid4().hex
DestStem(url, uuid) ==
  LET Stem(p) == Once(NameStem(p), sanitize_filename)
      OrUuid(name) == IF name # <<>> THEN name ELSE uuid
  IN  Once(Once(PathName(url), Stem), OrUuid)

\* download_with_retry: the extension read off the URL's path
UrlExt(url) ==
  LET Suffix(p) == Once(NameSuffix(p), Lower)
      Name(path) == Once(PathName(path), Suffix)
  IN  Once(UrlPath(url), Name)

\* download_with_retry: the destination file name inside outdir
DestOf(url, allowed, uuid) ==
  LET Dest(ext) ==
        LET WithExt(name) == IF HasKey(allowed, ext) THEN WithSuffix(name, ext)
                             ELSE name
        IN  Once(DestStem(url, uuid), WithExt)
  IN  Once(UrlExt(url), Dest)

\* download_file: the staging file of a destination
TmpOf(dest) == WithSuffix(dest, NameSuffix(dest) \o PartSuffix)

\* MimeFits with the whole type for its primary type
MimeFitsExactly(mime, expected) == mime = expected

\* download_file, destination with an allowed extension: the sniffed type is
\* taken when it starts with the primary type of the extension's type
MimeFits(mime, expected) == StartsWith(mime, SplitFirst(expected, "/"))

\* FirstMatch with the primary-type test of the other branch
FirstMatchByPrimary(allowed, mime) ==
  IF \E k \in DOMAIN allowed : StartsWith(mime, SplitFirst(allowed[k].mime, "/"))
  THEN CHOOSE k \in DOMAIN allowed :
         /\ StartsWith(mime, SplitFirst(allowed[k].mime, "/"))
         /\ \A j \in 1..(k-1) : ~StartsWith(mime, SplitFirst(allowed[j].mime, "/"))
  ELSE 0

\* download_file, destination without an allowed extension: the first entry
\* of allowed whose type is the sniffed one, 0 when there is none
FirstMatch(allowed, mime) ==
  IF \E k \in DOMAIN allowed : allowed[k].mime = mime
  THEN CHOOSE k \in DOMAIN allowed :
         allowed[k].mime = mime /\ \A j \in 1..(k-1) : allowed[j].mime # mime
  ELSE 0

\* download_file: [accept, dest] decided from the sniffed type
Verdict(dest, allowed, mime) ==
  LET Matched(k) ==
        IF k = 0 THEN [accept |-> FALSE, dest |-> dest]
        ELSE [accept |-> TRUE, dest |-> WithSuffix(dest, allowed[k].ext)]
      Checked(ext) ==
        IF HasKey(allowed, ext)
        THEN [accept |-> Once(Lookup(allowed, ext), LAMBDA m : MimeFits(mime, m)),
              dest |-> dest]
        ELSE Once(FirstMatch(allowed, mime), Matched)
  IN  Once(Once(NameSuffix(dest), Lower), Checked)

(***************************************************************************)
(* Inodes of the output directory.                                         *)
(***************************************************************************)
\* no file open
NoFd == <<>>

\* the inode a file created by task t gets: the first one of t not in use
\* in nodes
Ino(t, nodes) ==
  <<t, CHOOSE k \in 1..(Cardinality(DOMAIN nodes) + 1) :
         /\ <<t, k>> \notin DOMAIN nodes
         /\ \A j \in 1..(k-1) : <<t, j>> \in DOMAIN nodes>>

(***************************************************************************)
(* The state.                                                              *)
(***************************************************************************)
VARIABLES
  pc,          \* where main is: "start", "search", "pause", "searched",
               \* "download", "done", "error"
  only,        \* args.only as its comma-separated tokens, <<>> when absent
  max,         \* args.max
  primary,     \* args.engine
  workers,     \* args.workers
  allowed,     \* the allowed dict, entries in insertion order
  ei,          \* the extension loop: index into allowed of the current ext
  ni,          \* the engine loop: index into ordered of the next engine
  doc_urls,    \* the candidate list
  qi,          \* index into allowed of the extension last queried, 0 at first
  invoked,     \* the engines whose search was called for query qi, in order
  results,     \* what the last engine.search returned
  searches,    \* how many times engine.search has been called
  slept,       \* the seconds main has slept since engine.search last returned
  exitStatus,  \* "none" while running, "0" or "1" once the process has ended
  downloaded,  \* the success counter of main
  task,        \* the download tasks, one per candidate URL
  disk,        \* the output directory: file name -> inode
  inode,       \* inode -> the content of the file
  fetch        \* one call of SearchEngine._get_with_retry

mainVars == <<pc, only, max, primary, workers, allowed, ei, ni, doc_urls, qi,
              invoked, results, searches, slept, exitStatus, downloaded>>
fsVars   == <<disk, inode>>
vars     == <<mainVars, task, fsVars, fetch>>

\* _get_with_retry not in use
FetchIdle ==
  [pc |-> "idle", engine |-> "none", outcomes |-> <<>>, attempt |-> 0,
   delay |-> 0, gets |-> 0, slept |-> <<>>, ret |-> "none"]

\* the default of --engine
DefaultEngine == "duckduckgo"

\* the default of --workers
DefaultWorkers == 5

\* the state at the start of main, for the command lines that name an engine
\* of engines and a pool size of pools
Start(engines, pools) ==
  /\ pc = "start"
  /\ only \in OnlyChoices
  /\ max \in 0..MaxMax
  /\ primary \in engines
  /\ workers \in pools
  /\ allowed = <<>>
  /\ ei = 0 /\ ni = 0 /\ qi = 0
  /\ doc_urls = <<>>
  /\ invoked = <<>>
  /\ results = <<>>
  /\ searches = 0
  /\ slept = 0
  /\ exitStatus = "none"
  /\ downloaded = 0
  /\ task = <<>>
  /\ disk = [f \in {} |-> NoFd]
  /\ inode = [n \in {} |-> NoFd]

\* a run with the default engine and any pool size
Init == Start({DefaultEngine}, 1..MaxWorkers) /\ fetch = FetchIdle

\* a run with any engine as the primary one and the default pool size
InitSearch == Start(Range(ENGINES), {DefaultWorkers}) /\ fetch = FetchIdle

(***************************************************************************)
(* main: configuration and the search loop.                                *)
(***************************************************************************)
\* LoopHead without the test of the candidate list against max
LoopHeadToTheEnd(k, docs, exts) ==
  IF k > Len(exts)
  THEN pc' = "searched" /\ ei' = ei /\ ni' = ni
  ELSE pc' = "search" /\ ei' = k /\ ni' = 1

\* the head of the loop over the dict exts, about to visit entry k: leave the loop
\* when exts is exhausted or the candidate list docs has reached max
LoopHead(k, docs, exts) ==
  IF k > Len(exts) \/ ReachedMax(docs, max)
  THEN pc' = "searched" /\ ei' = ei /\ ni' = ni
  ELSE pc' = "search" /\ ei' = k /\ ni' = 1

\* main up to the search loop: parse_only raises on an unsupported token
ConfigError ==
  /\ pc = "start"
  /\ only # <<>>
  /\ parse_only(only).raised
  /\ pc' = "error"
  /\ exitStatus' = "1"
  /\ UNCHANGED <<only, max, primary, workers, allowed, ei, ni, doc_urls, qi,
                 invoked, results, searches, slept, downloaded, task, fsVars,
                 fetch>>

Configure ==
  /\ pc = "start"
  /\ only = <<>> \/ ~parse_only(only).raised
  /\ allowed' = IF only = <<>> THEN ALL_EXTENSIONS ELSE parse_only(only).exts
  /\ LoopHead(1, doc_urls, allowed')
  /\ UNCHANGED <<only, max, primary, workers, doc_urls, qi, invoked, results, searches,
                 slept, exitStatus, downloaded, task, fsVars, fetch>>

\* the responses _get_with_retry may hand to engine.search: None, or a page
\* with its result links
Responses ==
  { [ok |-> FALSE, links |-> <<>>] } \cup
  { [ok |-> TRUE, links |-> l] : l \in SeqUpTo(UrlUniverse, MaxLinks) }

\* one engine.search of the loop, for the response resp
SearchStep(resp) ==
  LET name == OrderedEngines(primary)[ni]
      ext  == allowed[ei].ext
      res  == EngineSearch(resp, max)
  IN  /\ results' = res
      /\ searches' = searches + 1
      /\ qi' = ei
      /\ invoked' = IF qi = ei THEN Append(invoked, name) ELSE <<name>>
      /\ slept' = 0
      /\ IF res # <<>>
         THEN \* admit, then break: on to the next extension
              /\ doc_urls' = AdmitResults(res, ext, doc_urls, max)
              /\ LoopHead(ei + 1, doc_urls', allowed)
         ELSE \* on to the pause
              /\ doc_urls' = doc_urls
              /\ pc' = "pause" /\ ei' = ei /\ ni' = ni

Search ==
  /\ pc = "search"
  /\ \E resp \in Responses : SearchStep(resp)
  /\ UNCHANGED <<only, max, primary, workers, allowed, exitStatus, downloaded,
                 task, fsVars, fetch>>

\* Pause without the sleep
PauseSkipped ==
  /\ pc = "pause"
  /\ slept' = 0
  /\ IF ni < Len(OrderedEngines(primary))
     THEN pc' = "search" /\ ei' = ei /\ ni' = ni + 1
     ELSE LoopHead(ei + 1, doc_urls, allowed)
  /\ UNCHANGED <<only, max, primary, workers, allowed, doc_urls, qi, invoked,
                 results, searches, exitStatus, downloaded, task, fsVars, fetch>>

\* Pause that goes back to the engine that returned nothing
PauseSameEngine ==
  /\ pc = "pause"
  /\ slept' = SEARCH_PAUSE
  /\ pc' = "search" /\ ei' = ei /\ ni' = ni
  /\ UNCHANGED <<only, max, primary, workers, allowed, doc_urls, qi, invoked,
                 results, searches, exitStatus, downloaded, task, fsVars, fetch>>

\* time.sleep(SEARCH_PAUSE) after an engine that returned nothing, then the
\* next engine, or the next extension after the last engine
Pause ==
  /\ pc = "pause"
  /\ slept' = SEARCH_PAUSE
  /\ IF ni < Len(OrderedEngines(primary))
     THEN pc' = "search" /\ ei' = ei /\ ni' = ni + 1
     ELSE LoopHead(ei + 1, doc_urls, allowed)
  /\ UNCHANGED <<only, max, primary, workers, allowed, doc_urls, qi, invoked,
                 results, searches, exitStatus, downloaded, task, fsVars, fetch>>

\* NoCandidates with sys.exit(0)
NoCandidatesExitsZero ==
  /\ pc = "searched"
  /\ doc_urls = <<>>
  /\ pc' = "done"
  /\ exitStatus' = "0"
  /\ UNCHANGED <<only, max, primary, workers, allowed, ei, ni, doc_urls, qi,
                 invoked, results, searches, slept, downloaded, task, fsVars,
                 fetch>>

\* after the loop: no candidate, sys.exit(1)
NoCandidates ==
  /\ pc = "searched"
  /\ doc_urls = <<>>
  /\ pc' = "done"
  /\ exitStatus' = "1"
  /\ UNCHANGED <<only, max, primary, workers, allowed, ei, ni, doc_urls, qi,
                 invoked, results, searches, slept, downloaded, task, fsVars,
                 fetch>>

(***************************************************************************)
(* The output directory: names are bound to inodes, and a file that a task *)
(* holds open stays writable through every rename or unlink of its name.   *)
(***************************************************************************)
\* the function f without the argument x
Without(f, x) == [y \in DOMAIN f \ {x} |-> f[y]]

\* the function f with f[x] = v
With(f, x, v) == [y \in DOMAIN f \cup {x} |-> IF y = x THEN v ELSE f[y]]

\* the inodes of nodes that a name of d or an open file of the tasks tk holds
Collect(nodes, d, tk) ==
  [n \in { m \in DOMAIN nodes :
             \/ \E f \in DOMAIN d : d[f] = m
             \/ \E t \in DOMAIN tk : tk[t].fd = m } |-> nodes[n]]

\* is the name a staging name of download_file
IsPart(name) == EndsWith(name, PartSuffix)

(***************************************************************************)
(* The download phase: ThreadPoolExecutor, download_with_retry and         *)
(* download_file, a step per request or file operation.                    *)
(***************************************************************************)
\* download_with_retry's attempts parameter
attempts == 3

\* uuid.uuid4().hex of task t, a name no URL yields
UuidOf(t) == <<"uuid4:", DigitChars[t + 1]>>

QueuedTask ==
  [st |-> "queued", i |-> 0, delay |-> 0, slept |-> <<>>, dest |-> <<>>,
   fd |-> NoFd, mime |-> <<>>, result |-> FALSE, log |-> "", counted |-> FALSE]

\* exe.submit(...) for every candidate URL; the locals of the search loop
\* are not read again and are dropped from the state
Submit ==
  /\ pc = "searched"
  /\ doc_urls # <<>>
  /\ pc' = "download"
  /\ downloaded' = 0
  /\ task' = [t \in DOMAIN doc_urls |-> QueuedTask]
  /\ ei' = 0 /\ ni' = 0 /\ qi' = 0
  /\ invoked' = <<>>
  /\ results' = <<>>
  /\ searches' = 0
  /\ slept' = 0
  /\ UNCHANGED <<only, max, primary, workers, allowed, doc_urls, exitStatus,
                 fsVars, fetch>>

Running(t) == task[t].st \notin {"queued", "done"}

\* a worker thread takes the next queued task: download_with_retry up to its loop
Begin(t) ==
  /\ pc = "download"
  /\ task[t].st = "queued"
  /\ \A u \in 1..(t-1) : task[u].st # "queued"
  /\ Cardinality({u \in DOMAIN task : Running(u)}) < workers
  /\ task' = [task EXCEPT ![t].st = "get", ![t].i = 1, ![t].delay = 1,
                          ![t].dest = DestOf(doc_urls[t], allowed, UuidOf(t))]
  /\ UNCHANGED <<mainVars, fsVars, fetch>>

\* Returned for a download_file that reports a rejection by raising: the
\* rejection falls into the except clause like any error
ReturnedOrRetried(t, tk, r, why) ==
  IF r \/ why = "giving up" \/ tk[t].i >= attempts
  THEN [tk EXCEPT ![t] = [QueuedTask EXCEPT !.st = "done", !.result = r, !.log = why]]
  ELSE [tk EXCEPT ![t].st = "get", ![t].i = @ + 1,
                  ![t].slept = Append(@, tk[t].delay), ![t].delay = @ * 2,
                  ![t].fd = NoFd, ![t].mime = <<>>]

\* download_with_retry returns r after logging why: its locals are gone, the
\* future holds r
Returned(t, tk, r, why) ==
  [tk EXCEPT ![t] = [QueuedTask EXCEPT !.st = "done", !.result = r, !.log = why]]

\* AfterError without the doubling of the delay
AfterErrorFlatDelay(t, tk) ==
  IF tk[t].i < attempts
  THEN [tk EXCEPT ![t].st = "get", ![t].i = @ + 1,
                  ![t].slept = Append(@, tk[t].delay),
                  ![t].fd = NoFd, ![t].mime = <<>>]
  ELSE [tk EXCEPT ![t] = [QueuedTask EXCEPT !.st = "done", !.log = "giving up"]]

\* AfterError of a pool that drops what is still queued once a download has
\* given up
AfterErrorCancels(t, tk) ==
  IF tk[t].i < attempts
  THEN [tk EXCEPT ![t].st = "get", ![t].i = @ + 1,
                  ![t].slept = Append(@, tk[t].delay), ![t].delay = @ * 2,
                  ![t].fd = NoFd, ![t].mime = <<>>]
  ELSE [u \in DOMAIN tk |->
          IF u = t \/ tk[u].st = "queued"
          THEN [QueuedTask EXCEPT !.st = "done", !.log = "giving up"]
          ELSE tk[u]]

\* the except clause of download_with_retry, entered by task t, whose record
\* is by then tk[t]: sleep and go round again, or give up
AfterError(t, tk) ==
  IF tk[t].i < attempts
  THEN [tk EXCEPT ![t].st = "get", ![t].i = @ + 1,
                  ![t].slept = Append(@, tk[t].delay), ![t].delay = @ * 2,
                  ![t].fd = NoFd, ![t].mime = <<>>]
  ELSE Returned(t, tk, FALSE, "giving up")

\* requests.get or raise_for_status raises
GetFail(t) ==
  /\ pc = "download"
  /\ task[t].st = "get"
  /\ task' = AfterError(t, task)
  /\ UNCHANGED <<mainVars, fsVars, fetch>>

\* the content of a file just opened with 'wb' by task t for a body of type body
Fresh(t, body, shared) ==
  [own |-> t, src |-> body, len |-> 0, torn |-> shared, verified |-> FALSE]

\* requests.get answers with a body of type body; open(tmp, 'wb') creates the
\* staging file or truncates the one that is there
GetOk(t, body) ==
  LET tmp == TmpOf(task[t].dest)
      old == tmp \in DOMAIN disk
      ino == IF old THEN disk[tmp] ELSE Ino(t, inode)
      shared == \E u \in DOMAIN task : u # t /\ task[u].fd = ino
  IN  /\ pc = "download"
      /\ task[t].st = "get"
      /\ disk' = With(disk, tmp, ino)
      /\ inode' = With(inode, ino, Fresh(t, body, shared))
      /\ task' = [task EXCEPT ![t].st = "write", ![t].fd = ino]
      /\ UNCHANGED <<mainVars, fetch>>

\* f.write(chunk) by task t into the file it holds open: the file grows to
\* len when t was the last to open it, and is torn when another task has
\* truncated it since
Written(t, len) ==
  LET n == inode[task[t].fd]
  IN  IF n.own = t
      THEN [inode EXCEPT ![task[t].fd].len = len, ![task[t].fd].verified = FALSE]
      ELSE [inode EXCEPT ![task[t].fd].torn = TRUE, ![task[t].fd].verified = FALSE]

\* the first chunks of the body are written
WriteFirst(t) ==
  /\ pc = "download"
  /\ task[t].st = "write"
  /\ inode' = Written(t, 1)
  /\ task' = [task EXCEPT ![t].st = "writing"]
  /\ UNCHANGED <<mainVars, disk, fetch>>

\* the last chunk is written and the with block closes the file
WriteRest(t) ==
  /\ pc = "download"
  /\ task[t].st = "writing"
  /\ task' = [task EXCEPT ![t].st = "sniff", ![t].fd = NoFd]
  /\ inode' = Collect(Written(t, 2), disk, task')
  /\ UNCHANGED <<mainVars, disk, fetch>>

\* iter_content raises in mid-stream: the with block closes the file, the
\* staging file stays
StreamFail(t) ==
  /\ pc = "download"
  /\ task[t].st \in {"write", "writing"}
  /\ task' = AfterError(t, task)
  /\ inode' = Collect(inode, disk, task')
  /\ UNCHANGED <<mainVars, disk, fetch>>

\* what magic.from_file may report for the content n
SniffOf(n) ==
  IF n.torn THEN BodyMimes \cup {EmptyMime}
  ELSE IF n.len = 0 THEN {EmptyMime} ELSE {n.src}

\* magic.from_file(tmp): OSError when the staging file is gone
Sniff(t) ==
  LET tmp == TmpOf(task[t].dest)
  IN  /\ pc = "download"
      /\ task[t].st = "sniff"
      /\ IF tmp \notin DOMAIN disk
         THEN task' = AfterError(t, task)
         ELSE \E m \in SniffOf(inode[disk[tmp]]) :
                task' = [task EXCEPT ![t].st = "decide", ![t].mime = m]
      /\ UNCHANGED <<mainVars, fsVars, fetch>>

\* the decision of download_file and what follows it: unlink and return
\* False, or rename and return True; rename raises when the staging file is
\* gone.  A renamed file is marked verified when it is complete and of the
\* type that was sniffed.
Decide(t) ==
  /\ pc = "download"
  /\ task[t].st = "decide"
  /\ \E tmp \in {TmpOf(task[t].dest)} :
     \E v \in {Verdict(task[t].dest, allowed, task[t].mime)} :
      /\ IF ~v.accept
         THEN /\ disk' = Without(disk, tmp)
              /\ task' = Returned(t, task, FALSE, "Skipping")
              /\ inode' = Collect(inode, disk', task')
         ELSE IF tmp \notin DOMAIN disk
         THEN /\ task' = AfterError(t, task)
              /\ UNCHANGED fsVars
         ELSE LET ino == disk[tmp]
                  ok  == /\ inode[ino].len = 2 /\ ~inode[ino].torn
                         /\ inode[ino].src = task[t].mime
              IN  /\ disk' = With(Without(disk, tmp), v.dest, ino)
                  /\ task' = Returned(t, task, TRUE, "Saved")
                  /\ inode' = Collect([inode EXCEPT ![ino].verified = ok],
                                      disk', task')
      /\ UNCHANGED <<mainVars, fetch>>

\* as_completed hands main a finished future: count its result
Completed(t) ==
  /\ pc = "download"
  /\ task[t].st = "done"
  /\ ~task[t].counted
  /\ task' = [task EXCEPT ![t].counted = TRUE]
  /\ downloaded' = IF task[t].result THEN downloaded + 1 ELSE downloaded
  /\ UNCHANGED <<pc, only, max, primary, workers, allowed, ei, ni, doc_urls,
                 qi, invoked, results, searches, slept, exitStatus, fsVars, fetch>>

\* every future has been counted: the summary line, and main returns
Summary ==
  /\ pc = "download"
  /\ \A t \in DOMAIN task : task[t].counted
  /\ pc' = "done"
  /\ exitStatus' = "0"
  /\ UNCHANGED <<only, max, primary, workers, allowed, ei, ni, doc_urls, qi,
                 invoked, results, searches, slept, downloaded, task, fsVars,
                 fetch>>

Next ==
  \/ ConfigError
  \/ Configure
  \/ Search
  \/ Pause
  \/ NoCandidates
  \/ Submit
  \/ \E t \in DOMAIN task : Begin(t)
  \/ \E t \in DOMAIN task : GetFail(t)
  \/ \E t \in DOMAIN task : \E body \in BodyMimes : GetOk(t, body)
  \/ \E t \in DOMAIN task : WriteFirst(t)
  \/ \E t \in DOMAIN task : WriteRest(t)
  \/ \E t \in DOMAIN task : StreamFail(t)
  \/ \E t \in DOMAIN task : Sniff(t)
  \/ \E t \in DOMAIN task : Decide(t)
  \/ \E t \in DOMAIN task : Completed(t)
  \/ Summary

\* a whole run of main
Spec == Init /\ [][Next]_vars

\* a whole run in which every request and every sleep returns and every
\* thread that can take a step takes one in the end
SpecLive == Spec /\ WF_vars(Next)

\* the search phase of main, for every primary engine
NextSearch == ConfigError \/ Configure \/ Search \/ Pause \/ NoCandidates

SpecSearch == InitSearch /\ [][NextSearch]_vars

(***************************************************************************)
(* SearchEngine._get_with_retry, a step per request and per sleep.  The    *)
(* outcome of each requests.get is the environment's choice.               *)
(***************************************************************************)
\* the default of max_attempts
max_attempts == 3

\* what one requests.get of _get_with_retry may come to: a good response, a
\* response with status 429, a response with another error status, no
\* response at all (timeout, connection error)
Outcomes == {"ok", "429", "http_error", "transport"}

\* the exception the try block raises for an outcome, "none" for a good one:
\* 429 is raised as HTTPError by hand, other statuses by raise_for_status
Raised(outcome) ==
  CASE outcome = "ok"         -> "none"
    [] outcome = "429"        -> "HTTPError"
    [] outcome = "http_error" -> "HTTPError"
    [] outcome = "transport"  -> "RequestException"

\* the except clause that takes an exception, "none" when no clause does
ExceptClause(exc) ==
  CASE exc = "HTTPError"        -> "except HTTPError"
    [] exc = "RequestException" -> "except RequestException"
    [] OTHER                    -> "none"

\* SleepsAfter with <= for <
SleepsAfterEvery(attempt, n) == attempt <= n

\* does the loop sleep after a failed attempt
SleepsAfter(attempt, n) == attempt < n

\* the delay after a sleep of delay
NextDelay(delay) == delay * 2

\* a call of _get_with_retry by the search of engine name
InitFetch ==
  /\ Start({DefaultEngine}, {DefaultWorkers})
  /\ only = <<>> /\ max = MaxMax
  /\ \E name \in Range(ENGINES) :
       fetch = [pc |-> "get", engine |-> name, outcomes |-> <<>>, attempt |-> 1,
                delay |-> 1, gets |-> 0, slept |-> <<>>, ret |-> "none"]

\* the try block of attempt fetch.attempt, and the except clause if it raises
FetchGet(o) ==
  /\ fetch.pc = "get"
  /\ LET f == [fetch EXCEPT !.gets = @ + 1, !.outcomes = Append(@, o)]
     IN  fetch' =
           IF Raised(o) = "none"
           THEN [f EXCEPT !.pc = "returned", !.ret = "resp"]
           ELSE IF ExceptClause(Raised(o)) = "none"
           THEN [f EXCEPT !.pc = "raised", !.ret = Raised(o)]
           ELSE IF SleepsAfter(fetch.attempt, max_attempts)
           THEN [f EXCEPT !.pc = "sleep"]
           ELSE [f EXCEPT !.pc = "exhausted"]
  /\ UNCHANGED <<mainVars, task, fsVars>>

\* time.sleep(delay); delay *= 2; the next attempt
FetchSleep ==
  /\ fetch.pc = "sleep"
  /\ fetch' = [fetch EXCEPT !.pc = "get", !.slept = Append(@, fetch.delay),
                            !.delay = NextDelay(@), !.attempt = @ + 1]
  /\ UNCHANGED <<mainVars, task, fsVars>>

\* after the loop: the error is logged, None is returned
FetchGiveUp ==
  /\ fetch.pc = "exhausted"
  /\ fetch' = [fetch EXCEPT !.pc = "returned", !.ret = "None"]
  /\ UNCHANGED <<mainVars, task, fsVars>>

NextFetch == (\E o \in Outcomes : FetchGet(o)) \/ FetchSleep \/ FetchGiveUp

SpecFetch == InitFetch /\ [][NextFetch]_vars

(***************************************************************************)
(* The two retry loops side by side: one call of _get_with_retry and one   *)
(* download_with_retry, each with the failures the environment deals it.   *)
(***************************************************************************)
\* a single candidate is about to be downloaded, and an engine's search has
\* just called _get_with_retry
InitRetry ==
  /\ pc = "download"
  /\ only = <<>>
  /\ max = 1
  /\ primary = DefaultEngine
  /\ workers = 1
  /\ allowed = ALL_EXTENSIONS
  /\ ei = 0 /\ ni = 0 /\ qi = 0
  /\ \E u \in UrlUniverse : doc_urls = <<u>>
  /\ invoked = <<>>
  /\ results = <<>>
  /\ searches = 0
  /\ slept = 0
  /\ exitStatus = "none"
  /\ downloaded = 0
  /\ task = <<QueuedTask>>
  /\ disk = [f \in {} |-> NoFd]
  /\ inode = [n \in {} |-> NoFd]
  /\ \E name \in Range(ENGINES) :
       fetch = [pc |-> "get", engine |-> name, outcomes |-> <<>>, attempt |-> 1,
                delay |-> 1, gets |-> 0, slept |-> <<>>, ret |-> "none"]

NextRetry ==
  \/ \E o \in Outcomes : FetchGet(o)
  \/ FetchSleep
  \/ FetchGiveUp
  \/ \E t \in DOMAIN task : Begin(t)
  \/ \E t \in DOMAIN task : GetFail(t)
  \/ \E t \in DOMAIN task : \E body \in BodyMimes : GetOk(t, body)
  \/ \E t \in DOMAIN task : WriteFirst(t)
  \/ \E t \in DOMAIN task : WriteRest(t)
  \/ \E t \in DOMAIN task : StreamFail(t)
  \/ \E t \in DOMAIN task : Sniff(t)
  \/ \E t \in DOMAIN task : Decide(t)

SpecRetry == InitRetry /\ [][NextRetry]_vars

(***************************************************************************)
(* The claims about the search phase, checked under SpecSearch.            *)
(***************************************************************************)
PdfExt == <<".","p","d","f">>
TxtExt == <<".","t","x","t">>

\* C1: in every state of the search loop, and when it has ended, doc_urls
\* holds at most args.max URLs.
C1_AtMostMax == Len(doc_urls) <= max

\* C1 witness: the search has ended with doc_urls full, and the last result
\* list holds one more URL that passes the test of main and was left out.
C1_Witness ==
  /\ pc = "searched"
  /\ max = MaxMax
  /\ Len(doc_urls) = max
  /\ \E k \in DOMAIN results :
       /\ EndsWith(Lower(results[k]), allowed[qi].ext)
       /\ results[k] \notin Range(doc_urls)

\* C2, as claimed: the path component of every candidate URL ends, without
\* regard to case, with an extension of the allowed set.
C2_PathHasAllowedExt ==
  \A k \in DOMAIN doc_urls :
    \E e \in DOMAIN allowed : EndsWith(Lower(UrlPath(doc_urls[k])), allowed[e].ext)

\* C3: doc_urls never holds the same URL twice.
C3_NoDuplicates ==
  \A j, k \in DOMAIN doc_urls : j # k => doc_urls[j] # doc_urls[k]

\* C3 witness: one result list named an admissible URL twice, the list took
\* it once, and it was the test for duplicates, not the maximum, that kept
\* the second one out.
C3_Witness ==
  /\ Len(results) = 2
  /\ results[1] = results[2]
  /\ results[1] \in Range(doc_urls)
  /\ Len(doc_urls) < max

\* the order C5 states: the preferred engine, then the others as registered
C5_Order(preferred) ==
  CASE preferred = "duckduckgo" -> <<"duckduckgo", "bing", "google">>
    [] preferred = "bing"       -> <<"bing", "duckduckgo", "google">>
    [] preferred = "google"     -> <<"google", "duckduckgo", "bing">>

\* C5: for each query the engines are invoked in the order preferred, then
\* the others as registered, each at most once; an engine is invoked for the
\* query in hand only after the one before it returned nothing, so the first
\* engine with a non-empty list ends the query; and what doc_urls gains in a
\* search step comes from the list of the engine just invoked.
C5_Fallback ==
  [][ searches' # searches =>
        /\ invoked' = SubSeq(C5_Order(primary), 1, Len(invoked'))
        /\ qi' = qi => /\ results = <<>>
                       /\ invoked' = Append(invoked, C5_Order(primary)[Len(invoked) + 1])
        /\ qi' # qi => Len(invoked') = 1
        /\ results' # <<>> => (pc' = "searched" \/ ei' # qi')
        /\ \E n \in 0..Len(results') :
             /\ Len(doc_urls') = Len(doc_urls) + n
             /\ SubSeq(doc_urls', 1, Len(doc_urls)) = doc_urls
             /\ \A k \in (Len(doc_urls) + 1)..Len(doc_urls') :
                  doc_urls'[k] \in Range(results')
    ]_vars

\* C5 witness: the preferred engine returned nothing, the next one a list of
\* two URLs, both were taken into doc_urls as they came, and the query ended
\* with the third engine not invoked.
C5_Witness ==
  /\ primary = "bing"
  /\ invoked = <<"bing", "duckduckgo">>
  /\ Len(results) = 2
  /\ doc_urls = results
  /\ pc = "searched" \/ ei # qi

(***************************************************************************)
(* The claim about _get_with_retry, checked under SpecFetch.               *)
(***************************************************************************)
\* C4: _get_with_retry issues GETs until the first success and never more
\* than max_attempts; it sleeps 1, then 2, between attempts and not after
\* the last one; every failure, 429 among them, counts alike; after
\* max_attempts failures it returns None; no exception leaves it.
C4_Retry ==
  LET o == fetch.outcomes
      failed(k) == o[k] # "ok"
  IN  /\ fetch.gets = Len(o)
      /\ fetch.gets <= max_attempts
      /\ \A k \in 1..(Len(o) - 1) : failed(k)
      /\ fetch.pc # "raised"
      /\ Len(fetch.slept) <= max_attempts - 1
      /\ \A k \in DOMAIN fetch.slept : fetch.slept[k] = 2 ^ (k - 1)
      /\ fetch.pc = "get" => Len(fetch.slept) = fetch.gets /\ fetch.gets < max_attempts
      /\ fetch.pc = "returned" =>
           /\ Len(fetch.slept) = fetch.gets - 1
           /\ fetch.ret = "resp" <=> ~failed(Len(o))
           /\ fetch.ret = "None" <=> (Len(o) = max_attempts /\ \A k \in DOMAIN o : failed(k))
           /\ fetch.ret \in {"resp", "None"}

\* C4 witness: three attempts failed, one of them with status 429, the call
\* slept 1 and 2 and returned None.
C4_Witness ==
  /\ fetch.pc = "returned"
  /\ fetch.ret = "None"
  /\ fetch.outcomes = <<"429", "transport", "http_error">>
  /\ fetch.slept = <<1, 2>>

(***************************************************************************)
(* The claims about the download phase and the whole run, checked under    *)
(* Spec.                                                                   *)
(***************************************************************************)
\* task t takes the step that follows the sniffing: the decision of
\* download_file with its unlink or rename
Decides(t) == task[t].st = "decide" /\ task'[t] # task[t]

\* the primary type of a MIME type, the part before '/'
PrimaryType(mime) == SplitFirst(mime, "/")

\* the step leaves every final name as it was
FinalNamesKept ==
  \A f \in DOMAIN disk' : ~IsPart(f) => f \in DOMAIN disk /\ disk'[f] = disk[f]

\* C6: when the destination carries an allowed extension, download_file
\* rejects exactly when the primary type of the sniffed type differs from
\* the primary type of the extension's type; a rejection returns False,
\* deletes the staging file and creates no file under a final name; with
\* equal primary types the staging file is renamed to the destination and
\* True is returned.
C6_SuffixedDest ==
  [][ \A t \in DOMAIN task :
        (Decides(t) /\ HasKey(allowed, Lower(NameSuffix(task[t].dest)))) =>
          LET dest  == task[t].dest
              tmp   == dest \o PartSuffix
              match == PrimaryType(task[t].mime) =
                       PrimaryType(Lookup(ALL_EXTENSIONS, Lower(NameSuffix(dest))))
          IN  /\ task'[t].log = "Skipping" <=> ~match
              /\ ~match => /\ task'[t].st = "done" /\ ~task'[t].result
                           /\ tmp \notin DOMAIN disk'
                           /\ FinalNamesKept
              /\ (match /\ tmp \in DOMAIN disk) =>
                           /\ task'[t].st = "done" /\ task'[t].result
                           /\ tmp \notin DOMAIN disk'
                           /\ dest \in DOMAIN disk' /\ disk'[dest] = disk[tmp]
              /\ (task'[t].st = "done" /\ task'[t].result) => match
    ]_vars

\* C6 witness: the download of the .txt URL was rejected, and neither its
\* staging file nor its destination is there.
C6_Witness ==
  \E t \in DOMAIN task :
    /\ doc_urls[t] = U_txt
    /\ task[t].st = "done" /\ task[t].log = "Skipping" /\ ~task[t].result
    /\ \A f \in DOMAIN disk : NameStem(f) # <<"b">> /\ f # <<"b">> \o TxtExt \o PartSuffix

\* C7: when the destination carries no allowed extension, download_file
\* accepts exactly when the sniffed type is the type of some allowed
\* extension, and the file is then saved under the destination's name with
\* such an extension; otherwise it returns False, deletes the staging file
\* and creates no file under a final name.
C7_BareDest ==
  [][ \A t \in DOMAIN task :
        (Decides(t) /\ ~HasKey(allowed, Lower(NameSuffix(task[t].dest)))) =>
          LET dest == task[t].dest
              tmp  == dest \o PartSuffix
              hit  == \E k \in DOMAIN allowed : allowed[k].mime = task[t].mime
          IN  /\ task'[t].log = "Skipping" <=> ~hit
              /\ ~hit => /\ task'[t].st = "done" /\ ~task'[t].result
                         /\ tmp \notin DOMAIN disk'
                         /\ FinalNamesKept
              /\ (hit /\ tmp \in DOMAIN disk) =>
                         /\ task'[t].st = "done" /\ task'[t].result
                         /\ tmp \notin DOMAIN disk'
                         /\ \E k \in DOMAIN allowed :
                              /\ allowed[k].mime = task[t].mime
                              /\ NameStem(dest) \o allowed[k].ext \in DOMAIN disk'
                              /\ disk'[NameStem(dest) \o allowed[k].ext] = disk[tmp]
              /\ (task'[t].st = "done" /\ task'[t].result) => hit
    ]_vars

\* C7 witness: the URL without an extension in its path was fetched, sniffed
\* as application/pdf and saved with the suffix .pdf.
C7_Witness ==
  \E t \in DOMAIN task :
    /\ doc_urls[t] = U_query
    /\ task[t].st = "done" /\ task[t].log = "Saved" /\ task[t].result
    /\ <<"d","f","a">> \o PdfExt \in DOMAIN disk
    /\ inode[disk[<<"d","f","a">> \o PdfExt]].src = M_pdf

\* C8, as claimed: a file under a final name is fully written, is not open
\* for writing, and is of the content that was verified.
C8_FinalFilesSound ==
  \A f \in DOMAIN disk :
    ~IsPart(f) =>
      /\ inode[disk[f]].len = 2
      /\ ~inode[disk[f]].torn
      /\ inode[disk[f]].verified
      /\ \A t \in DOMAIN task : task[t].fd # disk[f]

\* C9, as claimed: a file that is there under a final name stays there, with
\* its content, through every step of the download phase.
C9_NoOverwrite ==
  [][ \A f \in DOMAIN disk :
        ~IsPart(f) =>
          /\ f \in DOMAIN disk'
          /\ disk'[f] = disk[f]
          /\ inode'[disk'[f]].src = inode[disk[f]].src
    ]_vars

\* C10, as claimed, for a run asked for at least one document: the run ends
\* through sys.exit(1) only when every engine has been tried for every
\* allowed extension (and doc_urls is empty).
C10_ExitOnlyAfterAllTried ==
  (max >= 1 /\ pc = "done" /\ exitStatus = "1") =>
    /\ doc_urls = <<>>
    /\ searches = Len(allowed) * Len(ENGINES)

\* C10, as the code has it: a run that passes configuration ends with status 1 exactly
\* when doc_urls is empty when the search loop ends, and then no download
\* task was started and no file was created; with a non-empty doc_urls the
\* run goes into the download phase with one task per candidate URL and can
\* end only through the summary, with status 0, every task finished and
\* downloaded counting the tasks that returned True (none, possibly).
C10_ExitStatus ==
  /\ exitStatus = "1" <=> (pc = "error" \/ (pc = "done" /\ doc_urls = <<>>))
  /\ exitStatus = "0" <=> (pc = "done" /\ doc_urls # <<>>)
  /\ exitStatus # "none" <=> pc \in {"done", "error"}
  /\ doc_urls = <<>> => task = <<>> /\ DOMAIN disk = {} /\ pc # "download"
  /\ pc = "download" => DOMAIN task = DOMAIN doc_urls
  /\ exitStatus = "0" =>
       /\ DOMAIN task = DOMAIN doc_urls
       /\ \A t \in DOMAIN task : task[t].st = "done" /\ task[t].counted
       /\ downloaded = Cardinality({t \in DOMAIN task : task[t].result})

\* C10 witness: two candidates were found, neither download succeeded, and
\* the run ended with the summary 0/2 and status 0.
C10_Witness ==
  /\ pc = "done"
  /\ exitStatus = "0"
  /\ Len(doc_urls) = 2
  /\ downloaded = 0

(***************************************************************************)
(* The claim about the --only option, checked under Spec.                  *)
(***************************************************************************)
\* the key a token of --only stands for: stripped, lower-cased, one dot in front
C11_Key(tok) == <<".">> \o LStrip(Lower(RStrip(LStrip(tok, {" "}), {" "})), {"."})

\* C11: when a token of --only is no supported extension, the run gets no
\* further than the configuration error: no engine search is made, no
\* candidate is found, no download task exists and no file is created, and
\* the process ends with a non-zero status; the allowed dict of a run that
\* does start is non-empty, its keys are distinct, and each entry is an
\* entry of ALL_EXTENSIONS (the key with its type).
C11_ConfigErrorFirst ==
  /\ (\E k \in DOMAIN only : ~HasKey(ALL_EXTENSIONS, C11_Key(only[k]))) =>
       /\ pc \in {"start", "error"}
       /\ searches = 0 /\ results = <<>> /\ invoked = <<>>
       /\ doc_urls = <<>>
       /\ task = <<>>
       /\ DOMAIN disk = {}
  /\ pc = "error" =>
       /\ exitStatus = "1"
       /\ \E k \in DOMAIN only : ~HasKey(ALL_EXTENSIONS, C11_Key(only[k]))
  /\ pc \notin {"start", "error"} =>
       /\ allowed # <<>>
       /\ \A k \in DOMAIN allowed : \E j \in DOMAIN ALL_EXTENSIONS :
            allowed[k] = ALL_EXTENSIONS[j]
       /\ \A j, k \in DOMAIN allowed : j # k => allowed[j].ext # allowed[k].ext
       /\ only # <<>> =>
            \A k \in DOMAIN allowed : \E j \in DOMAIN only :
              allowed[k].ext = C11_Key(only[j])

\* C11 witness: --only pdf,zip has ended the run with the error, the
\* supported token in front of the unsupported one notwithstanding.
C11_Witness ==
  /\ pc = "error"
  /\ only = << <<"p","d","f">>, <<"z","i","p">> >>
  /\ exitStatus = "1"

(***************************************************************************)
(* The claims about the pool of download tasks, checked under SpecLive.    *)
(***************************************************************************)
\* task t returns in this step
C12_Returns(t) == task[t].st # "done" /\ task'[t].st = "done"

\* C12: every submitted download runs to its own end: a task returns only
\* from a step of its own, True after a rename, False after a rejection or
\* after the last of its own attempts has failed, never while queued and
\* never because another task failed; what a task returned stays; main
\* counts each future once; the run reaches the summary, and there total is
\* the number of candidate URLs and downloaded the number of tasks that
\* returned True, whatever the order of completion.
C12_NoCancellation ==
  /\ [][ pc = "download" =>
          /\ \A t, u \in DOMAIN task :
               (t # u /\ task'[t] # task[t]) => task'[u] = task[u]
          /\ \A t \in DOMAIN task :
               /\ C12_Returns(t) =>
                    /\ task[t].st \in {"get", "write", "writing", "sniff", "decide"}
                    /\ task'[t].result => task[t].st = "decide"
                    /\ ~task'[t].result =>
                         \/ task[t].st = "decide" /\ task'[t].log = "Skipping"
                         \/ task[t].i = attempts /\ task'[t].log = "giving up"
               /\ task[t].st = "done" =>
                    /\ task'[t].st = "done" /\ task'[t].result = task[t].result
                    /\ task[t].counted => task'[t].counted
               /\ task'[t].counted => task[t].st = "done"
          /\ downloaded' = downloaded + Cardinality(
               {t \in DOMAIN task :
                  ~task[t].counted /\ task'[t].counted /\ task[t].result})
          /\ pc' = "done" =>
               /\ DOMAIN task = DOMAIN doc_urls
               /\ \A t \in DOMAIN task : task[t].st = "done" /\ task[t].counted
               /\ downloaded = Cardinality({t \in DOMAIN task : task[t].result})
      ]_vars
  /\ (pc = "download") ~> (pc = "done" /\ exitStatus = "0")

\* C12 witness: of two downloads the first has given up after its last
\* attempt and the second, begun after that, was saved; the summary is 1/2.
C12_Witness ==
  /\ pc = "done"
  /\ Len(doc_urls) = 2
  /\ workers = 1
  /\ task[1].log = "giving up" /\ ~task[1].result
  /\ task[2].log = "Saved" /\ task[2].result
  /\ downloaded = 1

(***************************************************************************)
(* The claims about download_with_retry and the files of a task, checked   *)
(* under Spec.                                                             *)
(***************************************************************************)
\* download_file, at its decision for task t, finds the content not to be
\* what it takes: the primary types differ for a destination with an
\* allowed extension, no allowed extension has the sniffed type otherwise
C13_Rejected(t) ==
  LET ext == Lower(NameSuffix(task[t].dest))
  IN  /\ task[t].st = "decide"
      /\ IF HasKey(allowed, ext)
         THEN PrimaryType(task[t].mime) # PrimaryType(Lookup(allowed, ext))
         ELSE \A k \in DOMAIN allowed : allowed[k].mime # task[t].mime

\* C13: a rejection is not retried: the step of task t that decides a
\* rejection ends download_with_retry with False, whatever attempts are
\* left, without a sleep and without another attempt, and a task that has
\* returned takes no further attempt; the attempt counter moves on only
\* from an attempt that raised (a failed request, a broken stream, a
\* staging file that is gone), after a sleep of the current delay, and
\* only while attempts are left.
C13_RejectionNotRetried ==
  [][ \A t \in DOMAIN task :
        /\ (C13_Rejected(t) /\ task'[t] # task[t]) =>
             /\ task'[t].st = "done"
             /\ ~task'[t].result
             /\ task'[t].log = "Skipping"
        /\ (task[t].st = "done" /\ t \in DOMAIN task') =>
             /\ task'[t].st = "done"
             /\ task'[t].i = task[t].i
             /\ task'[t].slept = task[t].slept
        /\ (task[t].st # "queued" /\ t \in DOMAIN task'
                /\ (task'[t].i # task[t].i \/ task'[t].slept # task[t].slept)
                /\ task'[t].st # "done") =>
             /\ ~C13_Rejected(t)
             /\ task[t].st \in {"get", "write", "writing", "sniff", "decide"}
             /\ task[t].st \in {"sniff", "decide"} =>
                  task[t].dest \o PartSuffix \notin DOMAIN disk
             /\ task[t].i < attempts
             /\ task'[t].st = "get"
             /\ task'[t].i = task[t].i + 1
             /\ task'[t].slept = Append(task[t].slept, task[t].delay)
    ]_vars

\* C13 witness: the only candidate, a URL without an extension in its path,
\* was fetched as plain text with --only pdf, rejected, and the run ended
\* with 0/1 and an empty directory.
C13_Witness ==
  /\ pc = "done"
  /\ doc_urls = <<U_query>>
  /\ task[1].st = "done" /\ task[1].log = "Skipping" /\ ~task[1].result
  /\ downloaded = 0
  /\ DOMAIN disk = {}

\* C14, as claimed: two tasks at work at the same time have different
\* destinations and different staging files, and never hold the same file
\* open.
C14_DistinctPaths ==
  \A t, u \in DOMAIN task :
    (t # u /\ Running(t) /\ Running(u)) =>
      /\ task[t].dest # task[u].dest
      /\ TmpOf(task[t].dest) # TmpOf(task[u].dest)
      /\ task[t].fd # NoFd => task[t].fd # task[u].fd

\* C15, as claimed, for a run with a single candidate URL: once
\* download_with_retry has returned, the output directory holds one file,
\* and no staging file, when it returned True, and no file at all when it
\* returned False.
C15_FilesPerUrl ==
  (Len(doc_urls) = 1 /\ DOMAIN task = {1} /\ task[1].st = "done") =>
    IF task[1].result
    THEN Cardinality(DOMAIN disk) = 1 /\ \A f \in DOMAIN disk : ~IsPart(f)
    ELSE DOMAIN disk = {}

(***************************************************************************)
(* The claim about the two retry loops, checked under SpecRetry.           *)
(***************************************************************************)
\* the failed attempts _get_with_retry has behind it
C16_FetchFailures == Cardinality({k \in DOMAIN fetch.outcomes : fetch.outcomes[k] # "ok"})

\* C16: download_with_retry has the retry policy of _get_with_retry: the
\* same number of attempts at most (3), a sleep of 1 before the second
\* attempt and of 2 before the third, none after the last; when both loops
\* have the same number of failed attempts behind them and are about to
\* try again, they are at the same attempt, have slept the same delays and
\* hold the same next delay; download_with_retry gives up (returns False,
\* raises nothing) exactly from its third failed attempt, having slept 1
\* and 2, as _get_with_retry returns None after three failures and the
\* same sleeps.
C16_SameRetryPolicy ==
  /\ [](/\ attempts = max_attempts
        /\ \A t \in DOMAIN task : Running(t) =>
             /\ task[t].i \in 1..attempts
             /\ Len(task[t].slept) = task[t].i - 1
             /\ \A k \in DOMAIN task[t].slept : task[t].slept[k] = 2 ^ (k - 1)
             /\ (fetch.pc = "get" /\ task[t].st = "get"
                   /\ C16_FetchFailures = task[t].i - 1) =>
                  /\ fetch.attempt = task[t].i
                  /\ fetch.slept = task[t].slept
                  /\ fetch.delay = task[t].delay
        /\ (fetch.pc = "returned" /\ fetch.ret = "None") =>
             fetch.gets = max_attempts /\ fetch.slept = <<1, 2>>)
  /\ [][ \A t \in DOMAIN task :
          (Running(t) /\ task'[t].st = "done" /\ task'[t].log = "giving up") =>
            /\ task[t].i = max_attempts
            /\ task[t].slept = <<1, 2>>
            /\ ~task'[t].result
      ]_vars

\* C16 witness: both loops have failed twice, have slept 1 and 2, and are
\* about to make their third attempt.
C16_Witness ==
  /\ fetch.pc = "get" /\ fetch.attempt = 3 /\ fetch.slept = <<1, 2>>
  /\ task[1].st = "get" /\ task[1].i = 3 /\ task[1].slept = <<1, 2>>

(***************************************************************************)
(* The claims about the order and the pace of the search, checked under    *)
(* SpecSearch.                                                             *)
(***************************************************************************)
\* sub is seq with some elements left out, the others in their order
C17_InOrder(sub, seq) ==
  \E f \in [DOMAIN sub -> DOMAIN seq] :
    /\ \A j, k \in DOMAIN sub : j < k => f[j] < f[k]
    /\ \A k \in DOMAIN sub : seq[f[k]] = sub[k]

\* the entry of allowed a candidate URL was admitted for
C17_ExtIndex(u) ==
  CHOOSE e \in DOMAIN allowed : EndsWith(Lower(u), allowed[e].ext)

\* C17: doc_urls is built in discovery order: a step only appends; the
\* extensions are queried in the order of the allowed dict, none twice
\* after another, so the candidates stand in the order of their
\* extensions; and what one search appends are URLs of the list it
\* returned, in the order they have there.
C17_DiscoveryOrder ==
  /\ [](\A j, k \in DOMAIN doc_urls :
          j < k => C17_ExtIndex(doc_urls[j]) <= C17_ExtIndex(doc_urls[k]))
  /\ [][ /\ Len(doc_urls') >= Len(doc_urls)
         /\ SubSeq(doc_urls', 1, Len(doc_urls)) = doc_urls
         /\ qi' >= qi
         /\ searches' # searches => ei = qi' /\ (qi' = qi \/ qi' = qi + 1)
         /\ doc_urls' # doc_urls =>
              /\ searches' # searches
              /\ C17_InOrder(SubSeq(doc_urls', Len(doc_urls) + 1, Len(doc_urls')),
                             results')
              /\ \A k \in (Len(doc_urls) + 1)..Len(doc_urls') :
                   C17_ExtIndex(doc_urls'[k]) = qi'
      ]_vars

\* C17 witness: with --only "txt, .PDF" the .txt candidate, found first,
\* stands before the .pdf candidate, against the order of ALL_EXTENSIONS.
C17_Witness ==
  /\ Len(allowed) = 2 /\ allowed[1].ext = TxtExt /\ allowed[2].ext = PdfExt
  /\ doc_urls = <<U_txt, U_a_h>>
  /\ pc = "searched"

\* C18: an engine.search for the query searched last is made only after
\* that search returned nothing and main has then slept SEARCH_PAUSE; main
\* sleeps only after a search that returned nothing, and then SEARCH_PAUSE,
\* once; after a search that returned results main goes on without a
\* sleep.
C18_PauseBetweenEngines ==
  [][ /\ (searches' # searches /\ qi' = qi) =>
           /\ results = <<>>
           /\ slept = SEARCH_PAUSE
      /\ slept' # slept =>
           \/ /\ slept' = SEARCH_PAUSE
              /\ slept = 0
              /\ results = <<>> /\ searches > 0
              /\ searches' = searches
           \/ slept' = 0 /\ searches' # searches
      /\ (searches' # searches /\ results' # <<>>) =>
           /\ slept' = 0
           /\ pc' # "pause"
      /\ (searches' # searches /\ results' = <<>>) => pc' = "pause"
      /\ pc = "pause" => slept' = SEARCH_PAUSE
    ]_vars

\* C18 witness: the first engine returned nothing, main slept, the second
\* engine returned a list, and main has gone on to the next extension
\* without a sleep.
C18_Witness ==
  /\ Len(invoked) = 2
  /\ results # <<>>
  /\ slept = 0
  /\ pc = "search"
  /\ ei = qi + 1

\* C19: once doc_urls holds max URLs the search is over: the loop is left
\* before another engine.search or sleep, so no step after that searches or
\* changes doc_urls, whatever extensions are still to come; and the search
\* that brings doc_urls to max admits nothing beyond max from its result
\* list.
C19_CutOffAtMax ==
  /\ [](Len(doc_urls) >= max => pc \notin {"search", "pause"})
  /\ [][ /\ Len(doc_urls) >= max =>
              /\ searches' = searches
              /\ doc_urls' = doc_urls
              /\ slept' = slept
         /\ Len(doc_urls') > Len(doc_urls) => Len(doc_urls') <= max
         /\ (searches' # searches /\ Len(doc_urls') >= max) => pc' = "searched"
      ]_vars

\* C19 witness: with --only "txt, .PDF" and a maximum of 1 the first search
\* for .txt gave the one candidate, and the search ended with the .pdf
\* query never made.
C19_Witness ==
  /\ pc = "searched"
  /\ max = 1
  /\ Len(doc_urls) = 1
  /\ Len(allowed) = 2
  /\ qi = 1
  /\ searches = 1

(***************************************************************************)
(* The claim about termination, checked under SpecLive.                    *)
(***************************************************************************)
\* C20: every run in which each request and each sleep returns comes to
\* its end: the configuration error, the exit with status 1 of a search
\* without candidates, or the summary with status 0 after every task has
\* returned and been counted; on the way the search makes at most one
\* engine.search per allowed extension and engine, and each download task
\* at most attempts (3) attempts with at most two sleeps.
C20_Terminates ==
  /\ [](/\ pc \in {"search", "pause", "searched"} =>
             searches <= Len(allowed) * Len(ENGINES)
        /\ \A t \in DOMAIN task : task[t].i <= attempts /\ Len(task[t].slept) < attempts)
  /\ <>(\/ pc = "error" /\ exitStatus = "1"
        \/ pc = "done" /\ exitStatus = "1" /\ doc_urls = <<>> /\ task = <<>>
        \/ /\ pc = "done" /\ exitStatus = "0" /\ doc_urls # <<>>
           /\ \A t \in DOMAIN task : task[t].st = "done" /\ task[t].counted)

\* C20 witness: without --only every engine was tried for every extension
\* of the table, none returned anything, and the run has ended with
\* status 1 after 24 searches.
C20_Witness ==
  /\ pc = "done"
  /\ exitStatus = "1"
  /\ only = <<>>
  /\ searches = Len(ALL_EXTENSIONS) * Len(ENGINES)

====
